---- MODULE Spec2Model ----
(***************************************************************************)
(* Model of the two release-pipeline scripts of changesets-lab:            *)
(*   scripts/create-releases.js        (Tag-Scanner / Release-Publisher)   *)
(*   scripts/generate-auto-changeset.mjs (Change-Detector)                 *)
(*                                                                         *)
(* Strings are TLA+ strings, handled character by character with SubSeq.   *)
(* The emoji of the source's messages are written as :shortcodes:.         *)
(* The summary file is the sequence of the lines appended to it            *)
(* (appendToStepSummary writes content + '\n').  SpecRelease covers the    *)
(* runs in which appendFileSync and console output do not throw.           *)
(***************************************************************************)
EXTENDS Integers, Sequences, FiniteSets, TLC

\* ------------------------------------------------------------------------
\* Bounds of the model
\* ------------------------------------------------------------------------
MaxTags == 3
MaxPackages == 3

\* ------------------------------------------------------------------------
\* Generic string and sequence helpers (JavaScript built-ins)
\* ------------------------------------------------------------------------
\* String.prototype.startsWith
StartsWith(s, prefix) ==
    /\ Len(prefix) <= Len(s)
    /\ SubSeq(s, 1, Len(prefix)) = prefix

\* String.prototype.includes
Includes(s, pattern) ==
    \E i \in 0..(Len(s) - Len(pattern)) : SubSeq(s, i + 1, i + Len(pattern)) = pattern

\* white space removed by String.prototype.trim
IsWhiteSpace(c) == c \in {" ", "\n", "\t", "\r"}

RECURSIVE TrimStart(_)
TrimStart(s) ==
    IF Len(s) > 0 /\ IsWhiteSpace(SubSeq(s, 1, 1))
    THEN TrimStart(SubSeq(s, 2, Len(s)))
    ELSE s

RECURSIVE TrimEnd(_)
TrimEnd(s) ==
    IF Len(s) > 0 /\ IsWhiteSpace(SubSeq(s, Len(s), Len(s)))
    THEN TrimEnd(SubSeq(s, 1, Len(s) - 1))
    ELSE s

\* String.prototype.trim
Trim(s) == TrimEnd(TrimStart(s))

\* String.prototype.split with a one-character separator
RECURSIVE Split(_, _)
Split(s, sep) ==
    IF \E i \in 1..Len(s) : SubSeq(s, i, i) = sep
    THEN LET i == CHOOSE k \in 1..Len(s) :
                     /\ SubSeq(s, k, k) = sep
                     /\ \A j \in 1..(k - 1) : SubSeq(s, j, j) # sep
         IN  <<SubSeq(s, 1, i - 1)>> \o Split(SubSeq(s, i + 1, Len(s)), sep)
    ELSE <<s>>

\* Array.prototype.filter(Boolean) on strings: the empty string is falsy
IsTruthyString(s) == s # ""
FilterBoolean(lines) == SelectSeq(lines, IsTruthyString)

\* Array.prototype.join
RECURSIVE Join(_, _)
Join(lines, sep) ==
    IF Len(lines) = 0 THEN ""
    ELSE IF Len(lines) = 1 THEN lines[1]
    ELSE lines[1] \o sep \o Join(Tail(lines), sep)

\* encodeURIComponent, on the characters that occur in tag names
EncodeChar(c) ==
    CASE c = "@" -> "%40"
      [] c = "/" -> "%2F"
      [] c = " " -> "%20"
      [] OTHER   -> c

RECURSIVE EncodeURIComponent(_)
EncodeURIComponent(s) ==
    IF Len(s) = 0 THEN ""
    ELSE EncodeChar(SubSeq(s, 1, 1)) \o EncodeURIComponent(SubSeq(s, 2, Len(s)))

\* Number.prototype.toFixed(1) of milliseconds / 1000, for whole tenths
ToFixed1(milliseconds) ==
    ToString(milliseconds \div 1000) \o "." \o ToString((milliseconds % 1000) \div 100)

\* ------------------------------------------------------------------------
\* create-releases.js: configuration
\* ------------------------------------------------------------------------
RELEASE_APP_PREFIXES == <<"docs@", "web@">>

GIT_TAG_DETECTION_COMMAND == "git tag --points-at HEAD"

\* ------------------------------------------------------------------------
\* The inputs of a run of create-releases.js
\* ------------------------------------------------------------------------
\* tag names git can list at HEAD
TagNames ==
    {"docs@1.0.1", "web@0.1.3", "@repo/ui@0.3.0", "ui@1.0.0", "xdocs@1.0.0",
     "docs", "Web@2.0.0"}

\* git lists every tag once
TagLists ==
    {s \in UNION {[1..n -> TagNames] : n \in 0..MaxTags} :
        \A i, j \in DOMAIN s : i # j => s[i] # s[j]}

\* values of the environment variable GITHUB_STEP_SUMMARY ("" when unset)
StepSummaryPaths == {"", "/home/runner/summary.md"}

\* values of the environment variable GITHUB_REPOSITORY
Repositories == {"org/repo"}

\* error.message of a failed gh release create
ErrorMessages ==
    {"Command failed: gh release create\nHTTP 422: Validation Failed",
     "spawnSync /bin/sh ENOENT"}

\* Date.now() - SCRIPT_START_TIME when the statistics are computed
ElapsedMilliseconds == {400, 12300}

VARIABLES
    headTags,               \* git: the tags pointing at HEAD
    gitAvailable,           \* git: whether the tag query command succeeds
    GITHUB_STEP_SUMMARY,    \* environment
    GITHUB_REPOSITORY,      \* environment
    pc,                     \* position of the run of create-releases.js
    tags,                   \* main: const tags
    idx,                    \* processAllTags: position of the for loop
    attempt,                \* processAllTags: const attempt (<<>> or <<ReleaseAttempt>>)
    results,                \* processAllTags: const results
    statistics,             \* main: const statistics (<<>> or <<ReleaseStatistics>>)
    summary,                \* lines appended to the step summary file
    console,                \* lines written by console.log / console.error
    commands,               \* gh release create invocations, in order
    exitCode,               \* <<>> while running, <<code>> after process.exit(code)
    releases,               \* the release platform: the tags that have a release, oldest first
    run,                    \* 1 in the first run of create-releases.js, 2 in the run after it
    firstRun,               \* <<>>, or <<what the first run left>> once the second has started
    \* classification of one tag string
    tagArgument,            \* the tag passed to shouldCreateRelease / classifyTag
    classifications,        \* the results of the calls made so far
    \* a run of generate-auto-changeset.mjs
    turbo,                  \* what `pnpm turbo ls --affected --output json` yields
    argvTitle,              \* process.argv[2] ("" when absent)
    PR_NUMBER,              \* environment ("" when unset)
    CHANGESET_REPOSITORY,   \* environment GITHUB_REPOSITORY of this run ("" when unset)
    changesetWritable,      \* whether writeFileSync into .changeset succeeds
    cpc,                    \* position of the run of generate-auto-changeset.mjs
    config,                 \* main: const config (<<>> or <<EnvironmentConfig>>)
    affectedPackages,       \* main: const affectedPackages (<<>> or <<list>>)
    includedPackages,       \* main: const includedPackages (<<>> or <<list>>)
    changesetContent,       \* main: const changesetContent (<<>> or <<string>>)
    changesetFiles,         \* the files of the .changeset directory
    writeAttempts,          \* how many times writeFileSync has been called
    changesetConsole,       \* lines written by console.log / console.error
    changesetExit,          \* <<>> while running, <<code>> once the process has ended
    \* a second run of generate-auto-changeset.mjs, concurrent with the first,
    \* in the same .changeset directory
    peerEnv,                \* its turbo outcome, argv[2], PR_NUMBER and GITHUB_REPOSITORY
    peerPc,                 \* its position
    peerContent,            \* its changesetContent (<<>> or <<string>>)
    peerFile,               \* the file name it wrote (<<>> or <<name>>)
    peerExit,               \* <<>> while running, <<code>> once it has ended
    \* a run of the inline script at the end of create-releases.js, on the
    \* same HEAD and in the same environment
    inlinePc,               \* its position
    inlineTags,             \* const tags
    inlineIdx,              \* position of the for loop
    releasesCreated,        \* const releasesCreated
    releasesSkipped,        \* const releasesSkipped
    releasesFailed,         \* const releasesFailed
    inlineSummary,          \* lines it appended to its step summary file
    inlineConsole,          \* lines written by console.log / console.error
    inlineCommands,         \* its gh release create invocations, in order
    inlineExit              \* <<>> while running, <<code>> once the process has ended

\* the environment of a run of create-releases.js
releaseEnv == <<headTags, gitAvailable, GITHUB_STEP_SUMMARY, GITHUB_REPOSITORY>>

\* which run of create-releases.js this is, and what the one before it left
runHistory == <<run, firstRun>>

releaseVars ==
    <<releaseEnv, pc, tags, idx, attempt, results, statistics, summary, console,
      commands, exitCode, releases, runHistory>>

classifyVars == <<tagArgument, classifications>>

\* the environment of a run of generate-auto-changeset.mjs
changesetEnv == <<turbo, argvTitle, PR_NUMBER, CHANGESET_REPOSITORY, changesetWritable>>

changesetVars ==
    <<changesetEnv, cpc, config, affectedPackages, includedPackages, changesetContent,
      changesetFiles, writeAttempts, changesetConsole, changesetExit>>

peerVars == <<peerEnv, peerPc, peerContent, peerFile, peerExit>>

inlineVars ==
    <<inlinePc, inlineTags, inlineIdx, releasesCreated, releasesSkipped, releasesFailed,
      inlineSummary, inlineConsole, inlineCommands, inlineExit>>

vars == <<releaseVars, classifyVars, changesetVars, peerVars, inlineVars>>

\* what a run of create-releases.js leaves alone
notRelease == <<classifyVars, changesetVars, peerVars, inlineVars>>

\* what a run of the inline script leaves alone
notInline == <<releaseVars, classifyVars, changesetVars, peerVars>>

\* what a call of classifyTag leaves alone
notClassify == <<releaseVars, changesetVars, peerVars, inlineVars>>

\* what a run of generate-auto-changeset.mjs leaves alone
notChangeset == <<releaseVars, classifyVars, peerVars, inlineVars>>

\* what the concurrent run of generate-auto-changeset.mjs leaves alone:
\* everything but the .changeset directory
notPeer ==
    <<releaseVars, classifyVars, inlineVars, changesetEnv, cpc, config, affectedPackages,
      includedPackages, changesetContent, writeAttempts, changesetConsole, changesetExit>>

\* ------------------------------------------------------------------------
\* create-releases.js: pure functions
\* ------------------------------------------------------------------------
\* what `git tag --points-at HEAD` prints: one tag per line
RECURSIVE GitTagOutput(_)
GitTagOutput(ts) ==
    IF Len(ts) = 0 THEN ""
    ELSE Head(ts) \o "\n" \o GitTagOutput(Tail(ts))

\* variant: the empty lines of the output are kept (no filter(Boolean))
ParseTagOutputKeepingEmpty(output) == Split(Trim(output), "\n")

ParseTagOutput(output) == FilterBoolean(Split(Trim(output), "\n"))

\* variant: the prefix may occur anywhere in the tag (includes for startsWith)
ShouldCreateReleaseAnywhere(tag) ==
    \E k \in 1..Len(RELEASE_APP_PREFIXES) : Includes(tag, RELEASE_APP_PREFIXES[k])

ShouldCreateRelease(tag) ==
    \E k \in 1..Len(RELEASE_APP_PREFIXES) : StartsWith(tag, RELEASE_APP_PREFIXES[k])

ClassifyTag(tag) == IF ShouldCreateRelease(tag) THEN "app" ELSE "non-app"

ExtractErrorMessage(message) == Split(message, "\n")[1]

GenerateTagUrl(tag) ==
    "https://github.com/" \o GITHUB_REPOSITORY \o "/releases/tag/" \o EncodeURIComponent(tag)

\* variant: the append is performed whether or not the path is set
AppendToStepSummaryUnconditional(file, content) == Append(file, content)

\* appendToStepSummary: the file after appending content
AppendToStepSummary(file, content) ==
    IF GITHUB_STEP_SUMMARY # "" THEN Append(file, content) ELSE file

RECURSIVE AppendAllToStepSummary(_, _)
AppendAllToStepSummary(file, contents) ==
    IF Len(contents) = 0 THEN file
    ELSE AppendAllToStepSummary(AppendToStepSummary(file, Head(contents)), Tail(contents))

SummaryLine(tag, att) ==
    IF att.success
    THEN "- :white_check_mark: [" \o tag \o "](" \o GenerateTagUrl(tag) \o ")"
    ELSE IF att.skipped
    THEN "- :next_track: " \o tag \o " (skipped: not an app)"
    ELSE "- :x: " \o tag \o " (failed: " \o att.error \o ")"

StatisticsLines(stats) ==
    << "",
       "---",
       "### :bar_chart: Statistics",
       "- **Total Tags**: " \o ToString(stats.totalTags),
       "- **Releases Created**: " \o ToString(stats.created),
       "- **Skipped**: " \o ToString(stats.skipped),
       "- **Failed**: " \o ToString(stats.failed),
       "- **Duration**: " \o stats.duration \o "s",
       "" >>

HeaderLines == << "## :rocket: GitHub Releases Created", "" >>

NoTagsLines ==
    << "## :rocket: GitHub Releases", "", "**Status**: :next_track: No tags found at HEAD", "" >>

\* ------------------------------------------------------------------------
\* create-releases.js: the run
\* ------------------------------------------------------------------------
\* no run of create-releases.js
IdleRelease ==
    /\ headTags = <<>>
    /\ gitAvailable = TRUE
    /\ GITHUB_STEP_SUMMARY = ""
    /\ GITHUB_REPOSITORY = ""
    /\ pc = "idle"
    /\ tags = <<>>
    /\ idx = 1
    /\ attempt = <<>>
    /\ results = [created |-> <<>>, skipped |-> <<>>, failed |-> <<>>]
    /\ statistics = <<>>
    /\ summary = <<>>
    /\ console = <<>>
    /\ commands = <<>>
    /\ exitCode = <<>>
    /\ releases = <<>>
    /\ run = 1
    /\ firstRun = <<>>

\* no call of classifyTag
IdleClassify ==
    /\ tagArgument = ""
    /\ classifications = <<>>

\* no run of generate-auto-changeset.mjs
IdleChangeset ==
    /\ turbo = [kind |-> "commandFails", items |-> <<>>]
    /\ argvTitle = ""
    /\ PR_NUMBER = ""
    /\ CHANGESET_REPOSITORY = ""
    /\ changesetWritable = TRUE
    /\ cpc = "idle"
    /\ config = <<>>
    /\ affectedPackages = <<>>
    /\ includedPackages = <<>>
    /\ changesetContent = <<>>
    /\ changesetFiles = {}
    /\ writeAttempts = 0
    /\ changesetConsole = <<>>
    /\ changesetExit = <<>>

\* no run of the inline script
IdleInline ==
    /\ inlinePc = "idle"
    /\ inlineTags = <<>>
    /\ inlineIdx = 1
    /\ releasesCreated = <<>>
    /\ releasesSkipped = <<>>
    /\ releasesFailed = <<>>
    /\ inlineSummary = <<>>
    /\ inlineConsole = <<>>
    /\ inlineCommands = <<>>
    /\ inlineExit = <<>>

\* no concurrent run of generate-auto-changeset.mjs
IdlePeer ==
    /\ peerEnv = [turbo |-> [kind |-> "commandFails", items |-> <<>>], argvTitle |-> "",
                  PR_NUMBER |-> "", CHANGESET_REPOSITORY |-> ""]
    /\ peerPc = "idle"
    /\ peerContent = <<>>
    /\ peerFile = <<>>
    /\ peerExit = <<>>

InitRelease ==
    /\ IdleInline
    /\ IdleClassify
    /\ IdleChangeset
    /\ IdlePeer
    /\ headTags \in TagLists
    /\ gitAvailable \in BOOLEAN
    /\ GITHUB_STEP_SUMMARY \in StepSummaryPaths
    /\ GITHUB_REPOSITORY \in Repositories
    /\ pc = "start"
    /\ tags = <<>>
    /\ idx = 1
    /\ attempt = <<>>
    /\ results = [created |-> <<>>, skipped |-> <<>>, failed |-> <<>>]
    /\ statistics = <<>>
    /\ summary = <<>>
    /\ console = <<>>
    /\ commands = <<>>
    /\ exitCode = <<>>
    /\ releases = <<>>
    /\ run = 1
    /\ firstRun = <<>>

\* main, first statements
InitializeGitHubStepSummary ==
    /\ pc = "start"
    /\ summary' = AppendAllToStepSummary(summary, HeaderLines)
    /\ console' = Append(console, ":mag: Detecting tags at HEAD...")
    /\ pc' = "detect"
    /\ UNCHANGED <<releaseEnv, notRelease, releases, runHistory, tags, idx, attempt,
                   results, statistics, commands, exitCode>>

\* detectTagsAtHead returns; main tests tags.length
DetectTagsAtHead ==
    /\ pc = "detect"
    /\ gitAvailable
    /\ tags' = ParseTagOutput(GitTagOutput(headTags))
    /\ IF Len(tags') = 0
       THEN /\ pc' = "noTags"
            /\ console' = console
       ELSE /\ pc' = "attempt"
            /\ console' = Append(console, "Tags encontradas: " \o Join(tags', ","))
    /\ UNCHANGED <<releaseEnv, notRelease, releases, runHistory, idx, attempt,
                   results, statistics, summary, commands, exitCode>>

\* variant: a failed tag query is taken for "no tags" (fail open, as the
\* Change-Detector treats its detection command)
DetectTagsAtHeadFailsOpen ==
    /\ pc = "detect"
    /\ ~gitAvailable
    /\ console' = Append(console, ":x: Error detecting tags: Command failed: "
                                      \o GIT_TAG_DETECTION_COMMAND)
    /\ tags' = <<>>
    /\ pc' = "noTags"
    /\ UNCHANGED <<releaseEnv, notRelease, releases, runHistory, idx, attempt,
                   results, statistics, summary, commands, exitCode>>

\* the git command fails: detectTagsAtHead rethrows, the script's catch exits 1
DetectTagsAtHeadFails ==
    /\ pc = "detect"
    /\ ~gitAvailable
    /\ console' = console \o << ":x: Error detecting tags: Command failed: " \o GIT_TAG_DETECTION_COMMAND,
                                ":x: Fatal error in release creation: Command failed: "
                                    \o GIT_TAG_DETECTION_COMMAND,
                                "Error: Command failed: " \o GIT_TAG_DETECTION_COMMAND >>
    /\ exitCode' = <<1>>
    /\ pc' = "done"
    /\ UNCHANGED <<releaseEnv, notRelease, releases, runHistory, tags, idx, attempt,
                   results, statistics, summary, commands>>

HandleNoTagsFound ==
    /\ pc = "noTags"
    /\ console' = Append(console, "Nenhuma tag encontrada no HEAD, saindo sem criar releases.")
    /\ summary' = AppendAllToStepSummary(summary, NoTagsLines)
    /\ exitCode' = <<0>>
    /\ pc' = "done"
    /\ UNCHANGED <<releaseEnv, notRelease, releases, runHistory, tags, idx, attempt,
                   results, statistics, commands>>

\* variant: a tag that already has a release is skipped as well (pre-check)
AttemptSkipsReleaseWhenReleased ==
    /\ pc = "attempt"
    /\ ~ShouldCreateRelease(tags[idx]) \/ (\E k \in DOMAIN releases : releases[k] = tags[idx])
    /\ attempt' = << [tag |-> tags[idx], success |-> FALSE, skipped |-> TRUE, error |-> ""] >>
    /\ pc' = "categorize"
    /\ UNCHANGED <<releaseEnv, notRelease, releases, runHistory, tags, idx,
                   results, statistics, summary, console, commands, exitCode>>

\* attemptReleaseCreation, tag not eligible
AttemptSkipsRelease ==
    /\ pc = "attempt"
    /\ ~ShouldCreateRelease(tags[idx])
    /\ attempt' = << [tag |-> tags[idx], success |-> FALSE, skipped |-> TRUE, error |-> ""] >>
    /\ pc' = "categorize"
    /\ UNCHANGED <<releaseEnv, notRelease, releases, runHistory, tags, idx,
                   results, statistics, summary, console, commands, exitCode>>

\* variant: the eligibility test is missing, gh is started for any tag
ExecuteReleaseCreationUnfiltered ==
    /\ pc = "attempt"
    /\ console' = Append(console, ":white_check_mark: Criando release para " \o tags[idx])
    /\ commands' = Append(commands, [tag |-> tags[idx], result |-> "running"])
    /\ pc' = "executing"
    /\ UNCHANGED <<releaseEnv, notRelease, releases, runHistory, tags, idx, attempt,
                   results, statistics, summary, exitCode>>

\* attemptReleaseCreation, eligible tag: executeReleaseCreation starts gh
ExecuteReleaseCreation ==
    /\ pc = "attempt"
    /\ ShouldCreateRelease(tags[idx])
    /\ console' = Append(console, ":white_check_mark: Criando release para " \o tags[idx])
    /\ commands' = Append(commands, [tag |-> tags[idx], result |-> "running"])
    /\ pc' = "executing"
    /\ UNCHANGED <<releaseEnv, notRelease, releases, runHistory, tags, idx, attempt,
                   results, statistics, summary, exitCode>>

\* the platform rejects a release for a tag that already has one
HasRelease(tag) == \E k \in DOMAIN releases : releases[k] = tag

\* variant: gh replaces the release of a tag that already has one
ReleaseCreationSucceedsAgain ==
    /\ pc = "executing"
    /\ releases' = Append(releases, tags[idx])
    /\ commands' = [commands EXCEPT ![Len(commands)].result = "ok"]
    /\ attempt' = << [tag |-> tags[idx], success |-> TRUE, skipped |-> FALSE, error |-> ""] >>
    /\ pc' = "categorize"
    /\ UNCHANGED <<releaseEnv, notRelease, runHistory, tags, idx,
                   results, statistics, summary, console, exitCode>>

\* gh release create returns 0: the release now exists
ReleaseCreationSucceeds ==
    /\ pc = "executing"
    /\ ~HasRelease(tags[idx])
    /\ releases' = Append(releases, tags[idx])
    /\ commands' = [commands EXCEPT ![Len(commands)].result = "ok"]
    /\ attempt' = << [tag |-> tags[idx], success |-> TRUE, skipped |-> FALSE, error |-> ""] >>
    /\ pc' = "categorize"
    /\ UNCHANGED <<releaseEnv, notRelease, runHistory, tags, idx,
                   results, statistics, summary, console, exitCode>>

\* variant: a failed command is tried a second time
ReleaseCreationFailsWithRetry ==
    /\ pc = "executing"
    /\ commands' = [commands EXCEPT ![Len(commands)].result = "failed"]
    /\ IF Cardinality({k \in DOMAIN commands : commands[k].tag = tags[idx]}) < 2
       THEN /\ pc' = "attempt"
            /\ UNCHANGED <<console, attempt>>
       ELSE /\ \E message \in ErrorMessages :
                /\ console' = Append(console, ":x: Erro ao criar release para " \o tags[idx]
                                                  \o ": " \o message)
                /\ attempt' = << [tag |-> tags[idx], success |-> FALSE, skipped |-> FALSE,
                                  error |-> ExtractErrorMessage(message)] >>
            /\ pc' = "categorize"
    /\ UNCHANGED <<releaseEnv, notRelease, releases, runHistory, tags, idx,
                   results, statistics, summary, exitCode>>

\* variant: the exception of execSync is not caught per tag and ends the run
ReleaseCreationFailsAborting ==
    /\ pc = "executing"
    /\ \E message \in ErrorMessages :
        console' = Append(console, ":x: Fatal error in release creation: " \o message)
    /\ commands' = [commands EXCEPT ![Len(commands)].result = "failed"]
    /\ exitCode' = <<1>>
    /\ pc' = "done"
    /\ UNCHANGED <<releaseEnv, notRelease, releases, runHistory, tags, idx, attempt,
                   results, statistics, summary>>

\* variant: a failure deletes the releases created so far (rollback)
ReleaseCreationFailsRollingBack ==
    /\ pc = "executing"
    /\ \E message \in ErrorMessages :
        /\ console' = Append(console, ":x: Erro ao criar release para " \o tags[idx]
                                          \o ": " \o message)
        /\ attempt' = << [tag |-> tags[idx], success |-> FALSE, skipped |-> FALSE,
                          error |-> ExtractErrorMessage(message)] >>
    /\ commands' = [commands EXCEPT ![Len(commands)].result = "failed"]
    /\ releases' = SelectSeq(releases, LAMBDA t : \A k \in DOMAIN results.created :
                                                    results.created[k] # t)
    /\ pc' = "categorize"
    /\ UNCHANGED <<releaseEnv, notRelease, runHistory, tags, idx,
                   results, statistics, summary, exitCode>>

\* gh release create fails: execSync throws, attemptReleaseCreation catches
ReleaseCreationFails ==
    /\ pc = "executing"
    /\ \E message \in ErrorMessages :
        /\ console' = Append(console, ":x: Erro ao criar release para " \o tags[idx]
                                          \o ": " \o message)
        /\ attempt' = << [tag |-> tags[idx], success |-> FALSE, skipped |-> FALSE,
                          error |-> ExtractErrorMessage(message)] >>
    /\ commands' = [commands EXCEPT ![Len(commands)].result = "failed"]
    /\ pc' = "categorize"
    /\ UNCHANGED <<releaseEnv, notRelease, releases, runHistory, tags, idx,
                   results, statistics, summary, exitCode>>

\* variant: the branch for skipped attempts is missing
CategorizeReleaseAttemptWithoutSkipped ==
    /\ pc = "categorize"
    /\ IF attempt[1].success
       THEN results' = [results EXCEPT !.created = Append(@, tags[idx])]
       ELSE results' = [results EXCEPT !.failed = Append(@, tags[idx])]
    /\ pc' = "log"
    /\ UNCHANGED <<releaseEnv, notRelease, releases, runHistory, tags, idx, attempt,
                   statistics, summary, console, commands, exitCode>>

CategorizeReleaseAttempt ==
    /\ pc = "categorize"
    /\ IF attempt[1].success
       THEN /\ results' = [results EXCEPT !.created = Append(@, tags[idx])]
            /\ console' = console
       ELSE IF attempt[1].skipped
       THEN /\ results' = [results EXCEPT !.skipped = Append(@, tags[idx])]
            /\ console' = Append(console, ":next_track: Ignorando release para " \o tags[idx]
                                              \o " (nao e app)")
       ELSE /\ results' = [results EXCEPT !.failed = Append(@, tags[idx])]
            /\ console' = console
    /\ pc' = "log"
    /\ UNCHANGED <<releaseEnv, notRelease, releases, runHistory, tags, idx, attempt,
                   statistics, summary, commands, exitCode>>

\* variant: skipped tags get no line in the summary
LogReleaseAttemptToSummaryOmittingSkipped ==
    /\ pc = "log"
    /\ summary' = IF attempt[1].skipped THEN summary
                  ELSE AppendToStepSummary(summary, SummaryLine(tags[idx], attempt[1]))
    /\ idx' = idx + 1
    /\ attempt' = <<>>
    /\ pc' = IF idx < Len(tags) THEN "attempt" ELSE "statistics"
    /\ UNCHANGED <<releaseEnv, notRelease, releases, runHistory, tags,
                   results, statistics, console, commands, exitCode>>

\* logReleaseAttemptToSummary, then the for loop of processAllTags advances
LogReleaseAttemptToSummary ==
    /\ pc = "log"
    /\ summary' = AppendToStepSummary(summary, SummaryLine(tags[idx], attempt[1]))
    /\ idx' = idx + 1
    /\ attempt' = <<>>
    /\ pc' = IF idx < Len(tags) THEN "attempt" ELSE "statistics"
    /\ UNCHANGED <<releaseEnv, notRelease, releases, runHistory, tags,
                   results, statistics, console, commands, exitCode>>

CalculateStatistics ==
    /\ pc = "statistics"
    /\ \E milliseconds \in ElapsedMilliseconds :
        statistics' = << [totalTags |-> Len(tags),
                          created   |-> Len(results.created),
                          skipped   |-> Len(results.skipped),
                          failed    |-> Len(results.failed),
                          duration  |-> ToFixed1(milliseconds)] >>
    /\ pc' = "writeStatistics"
    /\ UNCHANGED <<releaseEnv, notRelease, releases, runHistory, tags, idx, attempt,
                   results, summary, console, commands, exitCode>>

WriteStatisticsToSummary ==
    /\ pc = "writeStatistics"
    /\ summary' = AppendAllToStepSummary(summary, StatisticsLines(statistics[1]))
    /\ pc' = "result"
    /\ UNCHANGED <<releaseEnv, notRelease, releases, runHistory, tags, idx, attempt,
                   results, statistics, console, commands, exitCode>>

\* variant: a created release outweighs the failures
HandleExecutionResultUnlessCreated ==
    /\ pc = "result"
    /\ IF Len(results.failed) > 0 /\ Len(results.created) = 0
       THEN /\ console' = Append(console, ":x: " \o ToString(Len(results.failed))
                                              \o " release(s) failed")
            /\ exitCode' = <<1>>
       ELSE /\ console' = Append(console, ":white_check_mark: Successfully created "
                                              \o ToString(statistics[1].created) \o " release(s)")
            /\ exitCode' = <<0>>
    /\ pc' = "done"
    /\ UNCHANGED <<releaseEnv, notRelease, releases, runHistory, tags, idx, attempt,
                   results, statistics, summary, commands>>

\* handleExecutionResult with handleFailedReleases / handleSuccessfulExecution
HandleExecutionResult ==
    /\ pc = "result"
    /\ IF Len(results.failed) > 0
       THEN /\ console' = Append(console, ":x: " \o ToString(Len(results.failed))
                                              \o " release(s) failed")
            /\ exitCode' = <<1>>
       ELSE /\ console' = Append(console, ":white_check_mark: Successfully created "
                                              \o ToString(statistics[1].created) \o " release(s)")
            /\ exitCode' = <<0>>
    /\ pc' = "done"
    /\ UNCHANGED <<releaseEnv, notRelease, releases, runHistory, tags, idx, attempt,
                   results, statistics, summary, commands>>

NextRelease ==
    \/ InitializeGitHubStepSummary
    \/ DetectTagsAtHead
    \/ DetectTagsAtHeadFails
    \/ HandleNoTagsFound
    \/ AttemptSkipsRelease
    \/ ExecuteReleaseCreation
    \/ ReleaseCreationSucceeds
    \/ ReleaseCreationFails
    \/ CategorizeReleaseAttempt
    \/ LogReleaseAttemptToSummary
    \/ CalculateStatistics
    \/ WriteStatisticsToSummary
    \/ HandleExecutionResult

SpecRelease == InitRelease /\ [][NextRelease]_vars

\* ------------------------------------------------------------------------
\* create-releases.js: runs in which appendFileSync can throw
\* ------------------------------------------------------------------------
\* error.message of a failed appendFileSync
AppendErrorMessage == "EACCES: permission denied, open '/home/runner/summary.md'"

\* the lines the statement at pc passes to appendToStepSummary, in order
PendingSummaryLines ==
    CASE pc = "start"           -> HeaderLines
      [] pc = "noTags"          -> NoTagsLines
      [] pc = "log"             -> <<SummaryLine(tags[idx], attempt[1])>>
      [] pc = "writeStatistics" -> StatisticsLines(statistics[1])
      [] OTHER                  -> <<>>

\* variant: logReleaseAttemptToSummary catches the exception and the loop
\* goes on with the next tag
AppendToStepSummaryFailsCaptured ==
    /\ pc \in {"start", "noTags", "log", "writeStatistics"}
    /\ GITHUB_STEP_SUMMARY # ""
    /\ IF pc = "log"
       THEN /\ console' = Append(console, ":warning: " \o AppendErrorMessage)
            /\ idx' = idx + 1
            /\ attempt' = <<>>
            /\ pc' = IF idx < Len(tags) THEN "attempt" ELSE "statistics"
            /\ UNCHANGED <<summary, exitCode>>
       ELSE /\ \E k \in 1..Len(PendingSummaryLines) :
                   summary' = summary \o SubSeq(PendingSummaryLines, 1, k - 1)
            /\ console' = console
                   \o (IF pc = "noTags"
                       THEN <<"Nenhuma tag encontrada no HEAD, saindo sem criar releases.">>
                       ELSE <<>>)
                   \o << ":x: Fatal error in release creation: " \o AppendErrorMessage,
                         "Error: " \o AppendErrorMessage >>
            /\ exitCode' = <<1>>
            /\ pc' = "done"
            /\ UNCHANGED <<idx, attempt>>
    /\ UNCHANGED <<releaseEnv, notRelease, releases, runHistory, tags,
                   results, statistics, commands>>

\* one of the appendFileSync calls of the statement at pc throws: the lines
\* before it are in the file, the exception leaves main and the script's
\* catch exits 1
AppendToStepSummaryFails ==
    /\ pc \in {"start", "noTags", "log", "writeStatistics"}
    /\ GITHUB_STEP_SUMMARY # ""
    /\ \E k \in 1..Len(PendingSummaryLines) :
           summary' = summary \o SubSeq(PendingSummaryLines, 1, k - 1)
    /\ console' = console
           \o (IF pc = "noTags"
               THEN <<"Nenhuma tag encontrada no HEAD, saindo sem criar releases.">>
               ELSE <<>>)
           \o << ":x: Fatal error in release creation: " \o AppendErrorMessage,
                 "Error: " \o AppendErrorMessage >>
    /\ exitCode' = <<1>>
    /\ pc' = "done"
    /\ UNCHANGED <<releaseEnv, notRelease, releases, runHistory, tags, idx, attempt,
                   results, statistics, commands>>

NextAppendFault ==
    \/ NextRelease
    \/ AppendToStepSummaryFails

SpecAppendFault == InitRelease /\ [][NextAppendFault]_vars

\* ------------------------------------------------------------------------
\* create-releases.js: the script is run again on the same HEAD
\* ------------------------------------------------------------------------
RerunTagNames == {"docs@1.0.1", "web@0.1.3", "@repo/ui@0.3.0"}

RerunTagLists == {s \in TagLists : \A k \in DOMAIN s : s[k] \in RerunTagNames}

InitRerun ==
    /\ InitRelease
    /\ headTags \in RerunTagLists

\* the first process has ended; a new process starts with the same HEAD and
\* environment, a new step summary file, and the platform as the first left it
StartRerun ==
    /\ pc = "done"
    /\ run = 1
    /\ run' = 2
    /\ firstRun' = << [releases |-> releases, exitCode |-> exitCode,
                       commands |-> commands, results |-> results,
                       summaryPath |-> GITHUB_STEP_SUMMARY] >>
    /\ pc' = "start"
    /\ tags' = <<>>
    /\ idx' = 1
    /\ attempt' = <<>>
    /\ results' = [created |-> <<>>, skipped |-> <<>>, failed |-> <<>>]
    /\ statistics' = <<>>
    /\ summary' = <<>>
    /\ console' = <<>>
    /\ commands' = <<>>
    /\ exitCode' = <<>>
    /\ UNCHANGED <<releaseEnv, notRelease, releases>>

NextRerun ==
    \/ NextRelease
    \/ StartRerun

SpecRerun == InitRerun /\ [][NextRerun]_vars

\* ------------------------------------------------------------------------
\* create-releases.js: the same HEAD under the other summary setting
\* ------------------------------------------------------------------------
InitSummarySetting ==
    /\ InitRelease
    /\ headTags \in RerunTagLists

\* the first process has ended; a new process starts on the same HEAD with
\* GITHUB_STEP_SUMMARY set the other way, against a platform without releases
StartComparisonRun ==
    /\ pc = "done"
    /\ run = 1
    /\ run' = 2
    /\ firstRun' = << [releases |-> releases, exitCode |-> exitCode,
                       commands |-> commands, results |-> results,
                       summaryPath |-> GITHUB_STEP_SUMMARY] >>
    /\ GITHUB_STEP_SUMMARY' \in StepSummaryPaths \ {GITHUB_STEP_SUMMARY}
    /\ releases' = <<>>
    /\ pc' = "start"
    /\ tags' = <<>>
    /\ idx' = 1
    /\ attempt' = <<>>
    /\ results' = [created |-> <<>>, skipped |-> <<>>, failed |-> <<>>]
    /\ statistics' = <<>>
    /\ summary' = <<>>
    /\ console' = <<>>
    /\ commands' = <<>>
    /\ exitCode' = <<>>
    /\ UNCHANGED <<headTags, gitAvailable, GITHUB_REPOSITORY, notRelease>>

NextSummarySetting ==
    \/ NextRelease
    \/ StartComparisonRun

SpecSummarySetting == InitSummarySetting /\ [][NextSummarySetting]_vars

\* ------------------------------------------------------------------------
\* create-releases.js: the inline script after the structured one, run next
\* to it on the same HEAD and in the same environment
\* ------------------------------------------------------------------------
\* variant: only the docs application gets releases
InlineShouldCreateReleaseDocsOnly(tag) == StartsWith(tag, "docs@")

InlineShouldCreateRelease(tag) ==
    IF StartsWith(tag, "docs@") \/ StartsWith(tag, "web@") THEN TRUE ELSE FALSE

InlineAppendToSummary(file, content) ==
    IF GITHUB_STEP_SUMMARY # "" THEN Append(file, content) ELSE file

RECURSIVE InlineAppendAllToSummary(_, _)
InlineAppendAllToSummary(file, contents) ==
    IF Len(contents) = 0 THEN file
    ELSE InlineAppendAllToSummary(InlineAppendToSummary(file, Head(contents)), Tail(contents))

InlineGetTagUrl(tag) ==
    "https://github.com/" \o GITHUB_REPOSITORY \o "/releases/tag/" \o EncodeURIComponent(tag)

InitInline ==
    /\ IdleClassify
    /\ IdleChangeset
    /\ IdlePeer
    /\ headTags \in RerunTagLists
    /\ gitAvailable \in BOOLEAN
    /\ GITHUB_STEP_SUMMARY \in StepSummaryPaths
    /\ GITHUB_REPOSITORY \in Repositories
    /\ pc = "start"
    /\ tags = <<>>
    /\ idx = 1
    /\ attempt = <<>>
    /\ results = [created |-> <<>>, skipped |-> <<>>, failed |-> <<>>]
    /\ statistics = <<>>
    /\ summary = <<>>
    /\ console = <<>>
    /\ commands = <<>>
    /\ exitCode = <<>>
    /\ releases = <<>>
    /\ run = 1
    /\ firstRun = <<>>
    /\ inlinePc = "start"
    /\ inlineTags = <<>>
    /\ inlineIdx = 1
    /\ releasesCreated = <<>>
    /\ releasesSkipped = <<>>
    /\ releasesFailed = <<>>
    /\ inlineSummary = <<>>
    /\ inlineConsole = <<>>
    /\ inlineCommands = <<>>
    /\ inlineExit = <<>>

\* const tags = execSync(...).trim().split('\n').filter(Boolean), the
\* tags.length === 0 branch, and the header of the summary
InlineDetectTags ==
    /\ inlinePc = "start"
    /\ gitAvailable
    /\ inlineTags' = FilterBoolean(Split(Trim(GitTagOutput(headTags)), "\n"))
    /\ IF Len(inlineTags') = 0
       THEN /\ inlineConsole' = Append(inlineConsole,
                    "Nenhuma tag encontrada no HEAD, saindo sem criar releases.")
            /\ inlineSummary' = InlineAppendAllToSummary(inlineSummary,
                    << "## :rocket: GitHub Releases", "",
                       "**Status**: :next_track: No tags found at HEAD", "" >>)
            /\ inlineExit' = <<0>>
            /\ inlinePc' = "done"
       ELSE /\ inlineConsole' = Append(inlineConsole,
                    "Tags encontradas: " \o Join(inlineTags', ","))
            /\ inlineSummary' = InlineAppendAllToSummary(inlineSummary,
                    << "## :rocket: GitHub Releases Created", "" >>)
            /\ inlineExit' = inlineExit
            /\ inlinePc' = "loop"
    /\ UNCHANGED <<notInline, inlineIdx, releasesCreated, releasesSkipped,
                   releasesFailed, inlineCommands>>

\* the git command fails: execSync throws at top level, nothing catches it,
\* node prints the error and exits 1
InlineDetectTagsFails ==
    /\ inlinePc = "start"
    /\ ~gitAvailable
    /\ inlineConsole' = Append(inlineConsole,
            "Error: Command failed: git tag --points-at HEAD")
    /\ inlineExit' = <<1>>
    /\ inlinePc' = "done"
    /\ UNCHANGED <<notInline, inlineTags, inlineIdx, releasesCreated, releasesSkipped,
                   releasesFailed, inlineSummary, inlineCommands>>

\* the for loop is over: the statistics and the exit code
InlineFinish ==
    /\ inlinePc = "loop"
    /\ inlineIdx > Len(inlineTags)
    /\ \E milliseconds \in ElapsedMilliseconds :
        inlineSummary' = InlineAppendAllToSummary(inlineSummary,
            << "",
               "---",
               "### :bar_chart: Statistics",
               "- **Total Tags**: " \o ToString(Len(inlineTags)),
               "- **Releases Created**: " \o ToString(Len(releasesCreated)),
               "- **Skipped**: " \o ToString(Len(releasesSkipped)),
               "- **Failed**: " \o ToString(Len(releasesFailed)),
               "- **Duration**: " \o ToFixed1(milliseconds) \o "s",
               "" >>)
    /\ IF Len(releasesFailed) > 0
       THEN /\ inlineConsole' = Append(inlineConsole, ":x: "
                    \o ToString(Len(releasesFailed)) \o " release(s) failed")
            /\ inlineExit' = <<1>>
       ELSE /\ inlineConsole' = Append(inlineConsole, ":white_check_mark: Successfully created "
                    \o ToString(Len(releasesCreated)) \o " release(s)")
            /\ inlineExit' = <<0>>
    /\ inlinePc' = "done"
    /\ UNCHANGED <<notInline, inlineTags, inlineIdx, releasesCreated, releasesSkipped,
                   releasesFailed, inlineCommands>>

\* loop body, try branch: gh release create returns 0
InlineReleaseCreated ==
    /\ inlinePc = "loop"
    /\ inlineIdx <= Len(inlineTags)
    /\ InlineShouldCreateRelease(inlineTags[inlineIdx])
    /\ inlineConsole' = Append(inlineConsole,
            ":white_check_mark: Criando release para " \o inlineTags[inlineIdx])
    /\ inlineCommands' = Append(inlineCommands,
            [tag |-> inlineTags[inlineIdx], result |-> "ok"])
    /\ releasesCreated' = Append(releasesCreated, inlineTags[inlineIdx])
    /\ inlineSummary' = InlineAppendToSummary(inlineSummary,
            "- :white_check_mark: [" \o inlineTags[inlineIdx] \o "]("
                \o InlineGetTagUrl(inlineTags[inlineIdx]) \o ")")
    /\ inlineIdx' = inlineIdx + 1
    /\ UNCHANGED <<notInline, inlinePc, inlineTags, releasesSkipped, releasesFailed,
                   inlineExit>>

\* loop body, catch branch: gh release create fails
InlineReleaseFails ==
    /\ inlinePc = "loop"
    /\ inlineIdx <= Len(inlineTags)
    /\ InlineShouldCreateRelease(inlineTags[inlineIdx])
    /\ \E message \in ErrorMessages :
        /\ inlineConsole' = inlineConsole \o
                << ":white_check_mark: Criando release para " \o inlineTags[inlineIdx],
                   ":x: Erro ao criar release para " \o inlineTags[inlineIdx]
                       \o ": " \o message >>
        /\ inlineSummary' = InlineAppendToSummary(inlineSummary,
                "- :x: " \o inlineTags[inlineIdx] \o " (failed: "
                    \o Split(message, "\n")[1] \o ")")
    /\ inlineCommands' = Append(inlineCommands,
            [tag |-> inlineTags[inlineIdx], result |-> "failed"])
    /\ releasesFailed' = Append(releasesFailed, inlineTags[inlineIdx])
    /\ inlineIdx' = inlineIdx + 1
    /\ UNCHANGED <<notInline, inlinePc, inlineTags, releasesCreated, releasesSkipped,
                   inlineExit>>

\* loop body, else branch: the tag is not an application tag
InlineSkipsRelease ==
    /\ inlinePc = "loop"
    /\ inlineIdx <= Len(inlineTags)
    /\ ~InlineShouldCreateRelease(inlineTags[inlineIdx])
    /\ inlineConsole' = Append(inlineConsole, ":next_track: Ignorando release para "
            \o inlineTags[inlineIdx] \o " (nao e app)")
    /\ releasesSkipped' = Append(releasesSkipped, inlineTags[inlineIdx])
    /\ inlineSummary' = InlineAppendToSummary(inlineSummary,
            "- :next_track: " \o inlineTags[inlineIdx] \o " (skipped: not an app)")
    /\ inlineIdx' = inlineIdx + 1
    /\ UNCHANGED <<notInline, inlinePc, inlineTags, releasesCreated, releasesFailed,
                   inlineCommands, inlineExit>>

InlineScript ==
    \/ InlineDetectTags
    \/ InlineDetectTagsFails
    \/ InlineReleaseCreated
    \/ InlineReleaseFails
    \/ InlineSkipsRelease
    \/ InlineFinish

NextInline ==
    \/ NextRelease
    \/ InlineScript

SpecInline == InitInline /\ [][NextInline]_vars

\* ------------------------------------------------------------------------
\* create-releases.js: shouldCreateRelease / classifyTag as functions of a tag
\* ------------------------------------------------------------------------
MaxClassifyCalls == 2

\* tag strings: any string can be passed, not only well-formed tags
TagStrings ==
    {a \o b \o c \o d :
        a \in {"", "x", "@", " "},
        b \in {"docs", "web", "doc", "we", "Docs", "WEB", "ui", "repo/ui", ""},
        c \in {"@", "", "-"},
        d \in {"", "1.0.0", "@2"}}

InitClassify ==
    /\ IdleInline
    /\ IdleRelease
    /\ IdlePeer
    /\ IdleChangeset
    /\ tagArgument \in TagStrings
    /\ classifications = <<>>

\* one call of shouldCreateRelease and of classifyTag on the tag
ClassifyTagCall ==
    /\ Len(classifications) < MaxClassifyCalls
    /\ classifications' = Append(classifications,
                                 [release |-> ShouldCreateRelease(tagArgument),
                                  class   |-> ClassifyTag(tagArgument)])
    /\ UNCHANGED <<tagArgument, notClassify>>

NextClassify == ClassifyTagCall

SpecClassify == InitClassify /\ [][NextClassify]_vars

\* ------------------------------------------------------------------------
\* generate-auto-changeset.mjs: configuration
\* ------------------------------------------------------------------------
BUMP_TYPE == "minor"

EXCLUDED_PATTERNS == <<"typescript-config", "eslint-config">>

TURBO_DETECT_COMMAND == "pnpm turbo ls --affected --output json"

\* ------------------------------------------------------------------------
\* The inputs of a run of generate-auto-changeset.mjs
\* ------------------------------------------------------------------------
PackageNames ==
    {"@repo/ui", "@repo/eslint-config", "@repo/typescript-config", "web",
     "@repo/ESLint-Config", "my-eslint-config-next", "eslint-confi"}

\* TurboPackage
Packages == [name : PackageNames]

\* turbo may list a package more than once
PackageLists == UNION {[1..n -> Packages] : n \in 0..MaxPackages}

\* an item of packages.items that has no `name`
NamelessItem == [path |-> "packages/ui"]

TurboItems == Packages \cup {NamelessItem}

\* the lists in which some item has no `name`
MalformedItemLists ==
    {l \in UNION {[1..n -> TurboItems] : n \in 1..MaxPackages} :
        \E k \in DOMAIN l : l[k] = NamelessItem}

\* a value of packages.items that is an object, not an array
NotAList == [count |-> 1]

\* What the command yields:
\*   commandFails     execSync throws
\*   invalidJson      the output is not JSON
\*   null             the output is the JSON value null
\*   notObject        the output is a JSON number, string, boolean or array
\*   noPackages       an object without `packages`
\*   itemsNull        { packages: { items: null } }
\*   itemsNotList     { packages: { items: { count: 1 } } }
\*   ok               { packages: { items: [ { name }, ... ] } }
\*   itemWithoutName  as ok, and some item has no `name`
TurboOutcomes ==
    {[kind |-> k, items |-> <<>>] :
        k \in {"commandFails", "invalidJson", "null", "notObject", "noPackages", "itemsNull"}}
    \cup {[kind |-> "ok", items |-> l] : l \in PackageLists}
    \cup {[kind |-> "itemWithoutName", items |-> l] : l \in MalformedItemLists}
    \cup {[kind |-> "itemsNotList", items |-> NotAList]}

ArgvTitles == {"", "Add new feature"}

PullRequestNumbers == {"", "42"}

ChangesetRepositories == {"", "org/repo"}

\* Date.now() when the file name is generated
Timestamps == {1000, 1001}

\* ------------------------------------------------------------------------
\* generate-auto-changeset.mjs: pure functions
\* ------------------------------------------------------------------------
\* extractPackagesFromResult: result.packages?.items || []
ExtractPackagesFromResult(result) ==
    IF result.kind \in {"ok", "itemWithoutName", "itemsNotList"} THEN result.items ELSE <<>>

\* reading result.packages throws a TypeError
ExtractPackagesThrows(result) == result.kind = "null"

\* pkg.name is a string
HasName(pkg) == "name" \in DOMAIN pkg

\* the index of the first item on which shouldExcludePackage throws, 0 if none
FirstNameless(packages) ==
    IF \E k \in DOMAIN packages : ~HasName(packages[k])
    THEN CHOOSE k \in DOMAIN packages :
             /\ ~HasName(packages[k])
             /\ \A j \in 1..(k - 1) : HasName(packages[j])
    ELSE 0

\* variant: the pattern is anchored at the start of the name
ShouldExcludePackageAnchored(pkg) ==
    \E k \in 1..Len(EXCLUDED_PATTERNS) : StartsWith(pkg.name, EXCLUDED_PATTERNS[k])

ShouldExcludePackage(pkg) ==
    \E k \in 1..Len(EXCLUDED_PATTERNS) : Includes(pkg.name, EXCLUDED_PATTERNS[k])

\* Array.prototype.filter with the callback of filterExcludedPackages
RECURSIVE FilterExcludedPackages(_)
FilterExcludedPackages(packages) ==
    IF Len(packages) = 0 THEN <<>>
    ELSE IF ShouldExcludePackage(Head(packages))
    THEN FilterExcludedPackages(Tail(packages))
    ELSE <<Head(packages)>> \o FilterExcludedPackages(Tail(packages))

\* the console lines of filterExcludedPackages
RECURSIVE ExclusionLog(_)
ExclusionLog(packages) ==
    IF Len(packages) = 0 THEN <<>>
    ELSE IF ShouldExcludePackage(Head(packages))
    THEN <<"   (/) Excluding config package: " \o Head(packages).name>>
             \o ExclusionLog(Tail(packages))
    ELSE ExclusionLog(Tail(packages))

\* variant: the severity depends on the package
YamlLinePerPackageSeverity(pkg) ==
    "\"" \o pkg.name \o "\": " \o (IF StartsWith(pkg.name, "@repo/") THEN BUMP_TYPE ELSE "patch")

YamlLine(pkg) == "\"" \o pkg.name \o "\": " \o BUMP_TYPE

GenerateYamlFrontmatter(packages) ==
    Join([k \in 1..Len(packages) |-> YamlLine(packages[k])], "\n")

\* variant: the repository is tested before the number
FormatPullRequestReferenceRepositoryFirst(prNumber, githubRepo) ==
    IF githubRepo # ""
    THEN "[#" \o prNumber \o "](https://github.com/" \o githubRepo \o "/pull/"
             \o prNumber \o ")\n\n"
    ELSE IF prNumber = "" THEN ""
    ELSE "#" \o prNumber \o "\n\n"

FormatPullRequestReference(prNumber, githubRepo) ==
    IF prNumber = "" THEN ""
    ELSE IF githubRepo # ""
    THEN "[#" \o prNumber \o "](https://github.com/" \o githubRepo \o "/pull/"
             \o prNumber \o ")\n\n"
    ELSE "#" \o prNumber \o "\n\n"

\* variant: the reference is put after the description
AssembleChangesetDocumentReferenceLast(yamlFrontmatter, prReference, description) ==
    "---\n" \o yamlFrontmatter \o "\n---\n\n" \o description \o "\n" \o prReference

AssembleChangesetDocument(yamlFrontmatter, prReference, description) ==
    "---\n" \o yamlFrontmatter \o "\n---\n\n" \o prReference \o description \o "\n"

\* variant: the content carries a sequence number taken from the directory
BuildChangesetContentNumbered(packages, cfg) ==
    AssembleChangesetDocument(GenerateYamlFrontmatter(packages),
                              FormatPullRequestReference(cfg.prNumber, cfg.githubRepo),
                              cfg.prTitle \o " (" \o ToString(Cardinality(changesetFiles) + 1) \o ")")

BuildChangesetContent(packages, cfg) ==
    AssembleChangesetDocument(GenerateYamlFrontmatter(packages),
                              FormatPullRequestReference(cfg.prNumber, cfg.githubRepo),
                              cfg.prTitle)

GenerateChangesetFileName(timestamp) == "auto-" \o ToString(timestamp) \o ".md"

IncludedLog(packages) ==
    <<":white_check_mark: " \o ToString(Len(packages))
          \o " package(s) will be included in changeset:">>
    \o [k \in 1..Len(packages) |-> "   * " \o packages[k].name]

\* ------------------------------------------------------------------------
\* generate-auto-changeset.mjs: the run
\* ------------------------------------------------------------------------
InitChangeset ==
    /\ IdleInline
    /\ IdleRelease
    /\ IdleClassify
    /\ IdlePeer
    /\ turbo \in TurboOutcomes
    /\ argvTitle \in ArgvTitles
    /\ PR_NUMBER \in PullRequestNumbers
    /\ CHANGESET_REPOSITORY \in ChangesetRepositories
    /\ changesetWritable \in BOOLEAN
    /\ cpc = "start"
    /\ config = <<>>
    /\ affectedPackages = <<>>
    /\ includedPackages = <<>>
    /\ changesetContent = <<>>
    /\ changesetFiles = {}
    /\ writeAttempts = 0
    /\ changesetConsole = <<>>
    /\ changesetExit = <<>>

ExtractEnvironmentConfig ==
    /\ cpc = "start"
    /\ config' = << [prTitle    |-> IF argvTitle # "" THEN argvTitle
                                    ELSE "Update affected packages",
                     prNumber   |-> PR_NUMBER,
                     githubRepo |-> CHANGESET_REPOSITORY] >>
    /\ changesetConsole' = Append(changesetConsole, ":mag: Detecting affected packages...")
    /\ cpc' = "detect"
    /\ UNCHANGED <<changesetEnv, notChangeset, affectedPackages, includedPackages,
                   changesetContent, changesetFiles, writeAttempts, changesetExit>>

\* variant: zero affected packages are reported as an error
DetectAffectedPackagesFailingOnEmpty ==
    /\ cpc = "detect"
    /\ ~ExtractPackagesThrows(turbo)
    /\ turbo.kind \notin {"commandFails", "invalidJson"}
    /\ affectedPackages' = <<ExtractPackagesFromResult(turbo)>>
    /\ IF turbo.kind = "itemsNotList"
       THEN /\ changesetConsole' = Append(changesetConsole,
                   "   Found undefined affected package(s)")
            /\ changesetExit' = changesetExit
            /\ cpc' = "filter"
       ELSE IF Len(affectedPackages'[1]) = 0
       THEN /\ changesetConsole' = changesetConsole \o
                   << "   Found 0 affected package(s)",
                      ":x: Error generating changeset: No affected packages found." >>
            /\ changesetExit' = <<1>>
            /\ cpc' = "done"
       ELSE /\ changesetConsole' = Append(changesetConsole,
                   "   Found " \o ToString(Len(affectedPackages'[1])) \o " affected package(s)")
            /\ changesetExit' = changesetExit
            /\ cpc' = "filter"
    /\ UNCHANGED <<changesetEnv, notChangeset, config, includedPackages,
                   changesetContent, changesetFiles, writeAttempts>>

\* detectAffectedPackages returns; main tests affectedPackages.length
DetectAffectedPackages ==
    /\ cpc = "detect"
    /\ ~ExtractPackagesThrows(turbo)
    /\ turbo.kind \notin {"commandFails", "invalidJson"}
    /\ affectedPackages' = <<ExtractPackagesFromResult(turbo)>>
    /\ IF turbo.kind = "itemsNotList"
       THEN \* packages.length is undefined, and undefined === 0 is false
            /\ changesetConsole' = Append(changesetConsole,
                   "   Found undefined affected package(s)")
            /\ changesetExit' = changesetExit
            /\ cpc' = "filter"
       ELSE IF Len(affectedPackages'[1]) = 0
       THEN /\ changesetConsole' = changesetConsole \o
                   << "   Found 0 affected package(s)",
                      "(i) No affected packages found. Skipping changeset generation." >>
            /\ changesetExit' = <<0>>
            /\ cpc' = "done"
       ELSE /\ changesetConsole' = Append(changesetConsole,
                   "   Found " \o ToString(Len(affectedPackages'[1])) \o " affected package(s)")
            /\ changesetExit' = changesetExit
            /\ cpc' = "filter"
    /\ UNCHANGED <<changesetEnv, notChangeset, config, includedPackages,
                   changesetContent, changesetFiles, writeAttempts>>

\* error.message of what the try block of detectAffectedPackages throws
DetectionErrorMessage(result) ==
    IF result.kind = "commandFails" THEN "Command failed: " \o TURBO_DETECT_COMMAND
    ELSE IF result.kind = "invalidJson" THEN "Unexpected token in JSON"
    ELSE "Cannot read properties of null (reading 'packages')"

\* variant: the catch of detectAffectedPackages rethrows
DetectAffectedPackagesFailsRethrowing ==
    /\ cpc = "detect"
    /\ \/ turbo.kind \in {"commandFails", "invalidJson"}
       \/ ExtractPackagesThrows(turbo)
    /\ changesetConsole' = changesetConsole \o
           << ":x: Error generating changeset: " \o DetectionErrorMessage(turbo),
              "Error: " \o DetectionErrorMessage(turbo) >>
    /\ changesetExit' = <<1>>
    /\ cpc' = "done"
    /\ UNCHANGED <<changesetEnv, notChangeset, config, affectedPackages, includedPackages,
                   changesetContent, changesetFiles, writeAttempts>>

\* execSync, JSON.parse or extractPackagesFromResult throws: the catch of
\* detectAffectedPackages exits 0
DetectAffectedPackagesFails ==
    /\ cpc = "detect"
    /\ \/ turbo.kind \in {"commandFails", "invalidJson"}
       \/ ExtractPackagesThrows(turbo)
    /\ changesetConsole' = changesetConsole \o
           << "(!) Could not detect affected packages: " \o DetectionErrorMessage(turbo),
              "(i) This might mean no packages are affected. Exiting gracefully." >>
    /\ changesetExit' = <<0>>
    /\ cpc' = "done"
    /\ UNCHANGED <<changesetEnv, notChangeset, config, affectedPackages, includedPackages,
                   changesetContent, changesetFiles, writeAttempts>>

\* packages.filter is not a function, or pkg.name.includes throws on an item
FilterThrows ==
    IF turbo.kind = "itemsNotList" THEN TRUE
    ELSE FirstNameless(affectedPackages[1]) # 0

\* variant: an empty filtered list is reported as an error
FilterPackagesFailingOnEmpty ==
    /\ cpc = "filter"
    /\ ~FilterThrows
    /\ includedPackages' = <<FilterExcludedPackages(affectedPackages[1])>>
    /\ IF Len(includedPackages'[1]) = 0
       THEN /\ changesetConsole' = changesetConsole \o ExclusionLog(affectedPackages[1]) \o
                   << ":x: Error generating changeset: All affected packages are excluded." >>
            /\ changesetExit' = <<1>>
            /\ cpc' = "done"
       ELSE /\ changesetConsole' = changesetConsole \o ExclusionLog(affectedPackages[1]) \o
                   IncludedLog(includedPackages'[1])
            /\ changesetExit' = changesetExit
            /\ cpc' = "build"
    /\ UNCHANGED <<changesetEnv, notChangeset, config, affectedPackages,
                   changesetContent, changesetFiles, writeAttempts>>

\* variant: main does not test includedPackages.length
FilterPackagesWithoutEmptyCheck ==
    /\ cpc = "filter"
    /\ ~FilterThrows
    /\ includedPackages' = <<FilterExcludedPackages(affectedPackages[1])>>
    /\ changesetConsole' = changesetConsole \o ExclusionLog(affectedPackages[1]) \o
           IncludedLog(includedPackages'[1])
    /\ changesetExit' = changesetExit
    /\ cpc' = "build"
    /\ UNCHANGED <<changesetEnv, notChangeset, config, affectedPackages,
                   changesetContent, changesetFiles, writeAttempts>>

\* filterExcludedPackages; main tests includedPackages.length, logIncludedPackages
FilterPackages ==
    /\ cpc = "filter"
    /\ ~FilterThrows
    /\ includedPackages' = <<FilterExcludedPackages(affectedPackages[1])>>
    /\ IF Len(includedPackages'[1]) = 0
       THEN /\ changesetConsole' = changesetConsole \o ExclusionLog(affectedPackages[1]) \o
                   << "(i) All affected packages are excluded (config/tooling). Skipping changeset generation." >>
            /\ changesetExit' = <<0>>
            /\ cpc' = "done"
       ELSE /\ changesetConsole' = changesetConsole \o ExclusionLog(affectedPackages[1]) \o
                   IncludedLog(includedPackages'[1])
            /\ changesetExit' = changesetExit
            /\ cpc' = "build"
    /\ UNCHANGED <<changesetEnv, notChangeset, config, affectedPackages,
                   changesetContent, changesetFiles, writeAttempts>>

\* filterExcludedPackages throws a TypeError in main, outside the try of
\* detectAffectedPackages: the script's catch exits 1
FilterPackagesFails ==
    /\ cpc = "filter"
    /\ FilterThrows
    /\ LET message == IF turbo.kind = "itemsNotList"
                      THEN "packages.filter is not a function"
                      ELSE "Cannot read properties of undefined (reading 'includes')"
           before  == IF turbo.kind = "itemsNotList" THEN <<>>
                      ELSE SubSeq(affectedPackages[1], 1,
                                  FirstNameless(affectedPackages[1]) - 1)
       IN  changesetConsole' = changesetConsole \o ExclusionLog(before) \o
               << ":x: Error generating changeset: " \o message,
                  "TypeError: " \o message >>
    /\ changesetExit' = <<1>>
    /\ cpc' = "done"
    /\ UNCHANGED <<changesetEnv, notChangeset, config, affectedPackages, includedPackages,
                   changesetContent, changesetFiles, writeAttempts>>

BuildChangeset ==
    /\ cpc = "build"
    /\ changesetContent' = <<BuildChangesetContent(includedPackages[1], config[1])>>
    /\ cpc' = "write"
    /\ UNCHANGED <<changesetEnv, notChangeset, config, affectedPackages, includedPackages,
                   changesetFiles, writeAttempts, changesetConsole, changesetExit>>

\* createChangesetFile, logSuccessMessage, and the script ends
CreateChangesetFile ==
    /\ cpc = "write"
    /\ changesetWritable
    /\ writeAttempts' = writeAttempts + 1
    /\ \E timestamp \in Timestamps :
        LET fileName == GenerateChangesetFileName(timestamp)
        IN  /\ changesetFiles' =
                   {f \in changesetFiles : f.name # fileName}
                   \cup {[name |-> fileName, content |-> changesetContent[1]]}
            /\ changesetConsole' = changesetConsole \o
                   << "",
                      ":tada: Changeset generated successfully!",
                      "   File: .changeset/" \o fileName,
                      "",
                      ":page_facing_up: Changeset content:",
                      "-------------------------------------",
                      changesetContent[1],
                      "-------------------------------------" >>
    /\ changesetExit' = <<0>>
    /\ cpc' = "done"
    /\ UNCHANGED <<changesetEnv, notChangeset, config, affectedPackages, includedPackages,
                   changesetContent>>

\* variant: a failed write is tried once more before giving up
CreateChangesetFileFailsWithRetry ==
    /\ cpc = "write"
    /\ ~changesetWritable
    /\ writeAttempts' = writeAttempts + 2
    /\ changesetConsole' = changesetConsole \o
           << ":x: Error generating changeset: ENOENT: no such file or directory",
              "Error: ENOENT: no such file or directory" >>
    /\ changesetExit' = <<1>>
    /\ cpc' = "done"
    /\ UNCHANGED <<changesetEnv, notChangeset, config, affectedPackages, includedPackages,
                   changesetContent, changesetFiles>>

\* writeFileSync throws: the script's catch exits 1
CreateChangesetFileFails ==
    /\ cpc = "write"
    /\ ~changesetWritable
    /\ writeAttempts' = writeAttempts + 1
    /\ changesetConsole' = changesetConsole \o
           << ":x: Error generating changeset: ENOENT: no such file or directory",
              "Error: ENOENT: no such file or directory" >>
    /\ changesetExit' = <<1>>
    /\ cpc' = "done"
    /\ UNCHANGED <<changesetEnv, notChangeset, config, affectedPackages, includedPackages,
                   changesetContent, changesetFiles>>

NextChangeset ==
    \/ ExtractEnvironmentConfig
    \/ DetectAffectedPackages
    \/ DetectAffectedPackagesFails
    \/ FilterPackages
    \/ FilterPackagesFails
    \/ BuildChangeset
    \/ CreateChangesetFile
    \/ CreateChangesetFileFails

SpecChangeset == InitChangeset /\ [][NextChangeset]_vars

\* ------------------------------------------------------------------------
\* generate-auto-changeset.mjs: two concurrent runs in one .changeset directory
\* ------------------------------------------------------------------------
\* what turbo yields in the runs that are compared
TwoRunOutcomes ==
    {[kind |-> "ok", items |-> l] :
        l \in { << [name |-> "@repo/ui"] >>,
               << [name |-> "@repo/ui"], [name |-> "@repo/eslint-config"] >>,
               << [name |-> "web"], [name |-> "@repo/ui"] >>,
               << [name |-> "@repo/eslint-config"] >> }}
    \cup {[kind |-> "commandFails", items |-> <<>>],
          [kind |-> "itemWithoutName", items |-> <<NamelessItem>>]}

TwoRunEnvironments ==
    [turbo : TwoRunOutcomes, argvTitle : ArgvTitles, PR_NUMBER : PullRequestNumbers,
     CHANGESET_REPOSITORY : ChangesetRepositories]

\* main up to createChangesetFile, as a function of the environment of the
\* run: the exit code if the run ends there, the content if it goes on
RunUpToWrite(env) ==
    LET cfg == [prTitle    |-> IF env.argvTitle # "" THEN env.argvTitle
                               ELSE "Update affected packages",
                prNumber   |-> env.PR_NUMBER,
                githubRepo |-> env.CHANGESET_REPOSITORY]
        ended(code) == [exit |-> <<code>>, content |-> <<>>]
    IN  IF env.turbo.kind \in {"commandFails", "invalidJson"} THEN ended(0)
        ELSE IF ExtractPackagesThrows(env.turbo) THEN ended(0)
        ELSE IF env.turbo.kind = "itemsNotList" THEN ended(1)
        ELSE IF Len(ExtractPackagesFromResult(env.turbo)) = 0 THEN ended(0)
        ELSE IF FirstNameless(ExtractPackagesFromResult(env.turbo)) # 0 THEN ended(1)
        ELSE IF Len(FilterExcludedPackages(ExtractPackagesFromResult(env.turbo))) = 0
        THEN ended(0)
        ELSE [exit    |-> <<>>,
              content |-> << BuildChangesetContent(
                                 FilterExcludedPackages(ExtractPackagesFromResult(env.turbo)),
                                 cfg) >>]

InitTwoRuns ==
    /\ IdleInline
    /\ IdleRelease
    /\ IdleClassify
    /\ turbo \in TwoRunOutcomes
    /\ argvTitle \in ArgvTitles
    /\ PR_NUMBER \in PullRequestNumbers
    /\ CHANGESET_REPOSITORY \in ChangesetRepositories
    /\ changesetWritable \in BOOLEAN
    /\ cpc = "start"
    /\ config = <<>>
    /\ affectedPackages = <<>>
    /\ includedPackages = <<>>
    /\ changesetContent = <<>>
    /\ changesetFiles = {}
    /\ writeAttempts = 0
    /\ changesetConsole = <<>>
    /\ changesetExit = <<>>
    /\ peerEnv \in TwoRunEnvironments
    /\ peerPc = "start"
    /\ peerContent = <<>>
    /\ peerFile = <<>>
    /\ peerExit = <<>>

\* the concurrent run: main from its start to buildChangesetContent
PeerBuildsChangeset ==
    /\ peerPc = "start"
    /\ peerContent' = RunUpToWrite(peerEnv).content
    /\ peerExit' = RunUpToWrite(peerEnv).exit
    /\ peerPc' = IF RunUpToWrite(peerEnv).exit = <<>> THEN "write" ELSE "done"
    /\ UNCHANGED <<notPeer, changesetFiles, peerEnv, peerFile>>

\* the concurrent run: createChangesetFile, and the script ends
PeerCreatesChangesetFile ==
    /\ peerPc = "write"
    /\ changesetWritable
    /\ \E timestamp \in Timestamps :
        LET fileName == GenerateChangesetFileName(timestamp)
        IN  /\ changesetFiles' =
                   {f \in changesetFiles : f.name # fileName}
                   \cup {[name |-> fileName, content |-> peerContent[1]]}
            /\ peerFile' = <<fileName>>
    /\ peerExit' = <<0>>
    /\ peerPc' = "done"
    /\ UNCHANGED <<notPeer, peerEnv, peerContent>>

\* the concurrent run: writeFileSync throws, the script's catch exits 1
PeerCreateChangesetFileFails ==
    /\ peerPc = "write"
    /\ ~changesetWritable
    /\ peerExit' = <<1>>
    /\ peerPc' = "done"
    /\ UNCHANGED <<notPeer, changesetFiles, peerEnv, peerContent, peerFile>>

NextTwoRuns ==
    \/ NextChangeset
    \/ PeerBuildsChangeset
    \/ PeerCreatesChangesetFile
    \/ PeerCreateChangesetFileFails

SpecTwoRuns == InitTwoRuns /\ [][NextTwoRuns]_vars

\* ------------------------------------------------------------------------
\* The pipeline: a run of generate-auto-changeset.mjs and a run of
\* create-releases.js, as two processes
\* ------------------------------------------------------------------------
InitPipeline ==
    /\ IdleInline
    /\ IdleClassify
    /\ IdlePeer
    /\ headTags \in RerunTagLists
    /\ gitAvailable \in BOOLEAN
    /\ GITHUB_STEP_SUMMARY \in StepSummaryPaths
    /\ GITHUB_REPOSITORY \in Repositories
    /\ pc = "start"
    /\ tags = <<>>
    /\ idx = 1
    /\ attempt = <<>>
    /\ results = [created |-> <<>>, skipped |-> <<>>, failed |-> <<>>]
    /\ statistics = <<>>
    /\ summary = <<>>
    /\ console = <<>>
    /\ commands = <<>>
    /\ exitCode = <<>>
    /\ releases = <<>>
    /\ run = 1
    /\ firstRun = <<>>
    /\ turbo \in TwoRunOutcomes
    /\ argvTitle = ""
    /\ PR_NUMBER = "42"
    /\ CHANGESET_REPOSITORY = "org/repo"
    /\ changesetWritable \in BOOLEAN
    /\ cpc = "start"
    /\ config = <<>>
    /\ affectedPackages = <<>>
    /\ includedPackages = <<>>
    /\ changesetContent = <<>>
    /\ changesetFiles = {}
    /\ writeAttempts = 0
    /\ changesetConsole = <<>>
    /\ changesetExit = <<>>

NextPipeline ==
    \/ NextChangeset
    \/ NextRelease

SpecPipeline == InitPipeline /\ [][NextPipeline]_vars

\* ========================================================================
\* Properties
\* ========================================================================
\* the allow-list of the specification: a tag is eligible when it begins
\* with 'docs@' or 'web@'
IsEligibleTag(t) ==
    \E p \in {"docs@", "web@"} : \E n \in 0..Len(t) : SubSeq(t, 1, n) = p

\* a name is excluded when 'typescript-config' or 'eslint-config' is a
\* substring of it
IsExcludedName(name) ==
    \E p \in {"typescript-config", "eslint-config"} :
        \E i \in 1..Len(name) : \E j \in i..Len(name) : SubSeq(name, i, j) = p

Occurs(s, x) == \E k \in DOMAIN s : s[k] = x

Occurrences(s, x) == Cardinality({k \in DOMAIN s : s[k] = x})

\* the gh invocations made for tag t
CommandsFor(t) == {k \in DOMAIN commands : commands[k].tag = t}

\* processAllTags has returned
LoopReturned ==
    pc \in {"statistics", "writeStatistics", "result"} \/ statistics # <<>>

SomeReleaseFailed == \E k \in DOMAIN commands : commands[k].result = "failed"

NoTagsMessage == "Nenhuma tag encontrada no HEAD, saindo sem criar releases."

NoTagsStatus == "**Status**: :next_track: No tags found at HEAD"

\* ------------------------------------------------------------------------
\* C1: filterExcludedPackages returns exactly the subsequence of its input,
\* in the original relative order, made of the packages whose name contains
\* no exclusion pattern as a case-sensitive substring: a package is dropped
\* if and only if some pattern is a substring of its name.
FilterKeepsExactlyUnexcludedInOrder ==
    includedPackages # <<>> =>
        LET aff  == affectedPackages[1]
            inc  == includedPackages[1]
            kept == {i \in DOMAIN aff : ~IsExcludedName(aff[i].name)}
        IN  /\ Len(inc) = Cardinality(kept)
            /\ \E f \in [DOMAIN inc -> DOMAIN aff] :
                   /\ \A a, b \in DOMAIN inc : a < b => f[a] < f[b]
                   /\ {f[a] : a \in DOMAIN inc} = kept
                   /\ \A a \in DOMAIN inc : inc[a] = aff[f[a]]

\* the example of the specification: @repo/ui stays, @repo/eslint-config goes
FilterExampleReached ==
    /\ includedPackages = << << [name |-> "@repo/ui"] >> >>
    /\ affectedPackages = << << [name |-> "@repo/ui"], [name |-> "@repo/eslint-config"] >> >>

OneCommandPerEligibleTag ==
    /\ \A k \in DOMAIN commands : Occurs(headTags, commands[k].tag)
    /\ \A i \in DOMAIN headTags :
           LET t == headTags[i]
               n == Cardinality(CommandsFor(t))
           IN  /\ n <= 1
               /\ ~IsEligibleTag(t) => n = 0
               /\ i < idx => IF IsEligibleTag(t) THEN n = 1
                             ELSE Occurs(results.skipped, t)
    /\ LoopReturned => idx = Len(headTags) + 1

\* the example of the specification: one release for docs@1.0.1, one skip
OneAttemptOneSkipReached ==
    /\ pc = "done"
    /\ headTags = <<"docs@1.0.1", "@repo/ui@0.3.0">>
    /\ commands = << [tag |-> "docs@1.0.1", result |-> "ok"] >>
    /\ results.skipped = <<"@repo/ui@0.3.0">>
    /\ exitCode = <<0>>

GitFailureIsFatal ==
    ~gitAvailable =>
        /\ pc \in {"start", "detect", "done"}
        /\ commands = <<>>
        /\ ~Occurs(console, NoTagsMessage)
        /\ ~Occurs(summary, NoTagsStatus)
        /\ pc = "done" => exitCode = <<1>>

GitFailureWithEligibleTagReached ==
    /\ pc = "done"
    /\ ~gitAvailable
    /\ Len(headTags) >= 1
    /\ IsEligibleTag(headTags[1])
    /\ GITHUB_STEP_SUMMARY # ""
    /\ exitCode = <<1>>

\* ------------------------------------------------------------------------
\* C8: per-tag state machine.  A detected tag is Detected until it is put in
\* a bucket or its command is started; the only moves are
\* Detected -> Skipped, Detected -> Attempting, Attempting -> Created and
\* Attempting -> Failed, so Skipped, Created and Failed are terminal; a tag
\* is Attempting only if it is eligible.
TagState(i) ==
    IF Occurs(results.created, tags[i]) THEN "Created"
    ELSE IF Occurs(results.skipped, tags[i]) THEN "Skipped"
    ELSE IF Occurs(results.failed, tags[i]) THEN "Failed"
    ELSE IF i = idx /\ (pc = "executing" \/ (pc = "categorize" /\ ~attempt[1].skipped))
    THEN "Attempting"
    ELSE "Detected"

TagMoves ==
    { <<"Detected", "Skipped">>, <<"Detected", "Attempting">>,
      <<"Attempting", "Created">>, <<"Attempting", "Failed">> }

TagStep ==
    /\ \A i \in DOMAIN tags :
           TagState(i)' = TagState(i) \/ <<TagState(i), TagState(i)'>> \in TagMoves
    /\ \A i \in DOMAIN tags' :
           /\ TagState(i)' = "Attempting" => IsEligibleTag(tags'[i])
           /\ tags = <<>> => TagState(i)' = "Detected"

TagStateMachine == [][TagStep]_vars

AllTerminalStatesReached ==
    /\ pc = "done"
    /\ \E i, j, k \in DOMAIN tags :
           /\ TagState(i) = "Created"
           /\ TagState(j) = "Failed"
           /\ TagState(k) = "Skipped"

\* ------------------------------------------------------------------------
\* C9: report ordering.  With a summary configured and at least one tag,
\* the summary is the header, then one line per processed tag in processing
\* order (the line of a tag is there before the next tag is attempted, and
\* tells the outcome of that tag), then, once written, the statistics block.
IsReportLineOf(line, t) ==
    IF Occurs(results.created, t)
    THEN StartsWith(line, "- :white_check_mark: [" \o t \o "](")
    ELSE IF Occurs(results.skipped, t)
    THEN line = "- :next_track: " \o t \o " (skipped: not an app)"
    ELSE Occurs(results.failed, t) /\ StartsWith(line, "- :x: " \o t \o " (failed: ")

StatisticsPartitionTheTags ==
    statistics # <<>> =>
        LET st == statistics[1]
            withResult(r) ==
                {i \in DOMAIN headTags :
                    \E k \in CommandsFor(headTags[i]) : commands[k].result = r}
        IN  /\ st.totalTags = Len(headTags)
            /\ st.totalTags = st.created + st.skipped + st.failed
            /\ st.created = Cardinality(withResult("ok"))
            /\ st.failed = Cardinality(withResult("failed"))
            /\ st.skipped = Cardinality({i \in DOMAIN headTags : ~IsEligibleTag(headTags[i])})
            /\ \A i \in DOMAIN headTags :
                   Occurrences(results.created, headTags[i])
                     + Occurrences(results.skipped, headTags[i])
                     + Occurrences(results.failed, headTags[i]) = 1

StatisticsOneOfEachReached ==
    /\ statistics # <<>>
    /\ statistics[1].totalTags = 3
    /\ statistics[1].created = 1
    /\ statistics[1].skipped = 1
    /\ statistics[1].failed = 1

\* ------------------------------------------------------------------------
\* Properties of generate-auto-changeset.mjs
\* ------------------------------------------------------------------------
\* detectAffectedPackages has returned a list to main
DetectionReturnedList == affectedPackages # <<>> /\ turbo.kind # "itemsNotList"

\* the run has told the user that a changeset was generated
ReportsRecordWritten ==
    \E k \in DOMAIN changesetConsole :
        changesetConsole[k] = ":tada: Changeset generated successfully!"

\* nothing was written and no write was tried
NoRecordWritten == changesetFiles = {} /\ writeAttempts = 0

\* ------------------------------------------------------------------------
\* C11: when detection reports zero affected packages, the run exits 0 and
\* writes no record file.
ZeroAffectedPackagesExitsZero ==
    (DetectionReturnedList /\ Len(affectedPackages[1]) = 0) =>
        /\ cpc = "done"
        /\ changesetExit = <<0>>
        /\ NoRecordWritten
        /\ ~ReportsRecordWritten

\* turbo printed { packages: { items: [] } } and the run has ended
ZeroAffectedPackagesReached ==
    /\ turbo = [kind |-> "ok", items |-> <<>>]
    /\ affectedPackages = << <<>> >>
    /\ changesetExit = <<0>>

\* ------------------------------------------------------------------------
\* C12: when every affected package is removed by the exclusion filter, the
\* run exits 0 without writing a record file, the exit code of the run with
\* no affected package.
AllExcludedExitsZero ==
    (/\ DetectionReturnedList
     /\ Len(affectedPackages[1]) > 0
     /\ includedPackages # <<>>
     /\ Len(includedPackages[1]) = 0) =>
        /\ cpc = "done"
        /\ changesetExit = <<0>>
        /\ NoRecordWritten
        /\ ~ReportsRecordWritten

\* both affected packages are configuration packages
AllExcludedReached ==
    /\ turbo.kind = "ok"
    /\ affectedPackages =
           << << [name |-> "@repo/eslint-config"], [name |-> "@repo/typescript-config"] >> >>
    /\ includedPackages = << <<>> >>
    /\ changesetExit = <<0>>

InvalidJsonExitsOne ==
    (turbo.kind = "invalidJson" /\ cpc = "done") =>
        /\ changesetExit = <<1>>
        /\ \E k \in DOMAIN changesetConsole :
               Includes(changesetConsole[k], "Unexpected token in JSON")

\* ------------------------------------------------------------------------
\* C15: a JSON-shape error after successful detection is fatal: when the
\* command succeeds and prints JSON whose top-level value is not an object,
\* whose packages.items is not a list, or one of whose items has no string
\* name, the run ends with status 1 and writes no record file.
UnusableShapes == {"null", "notObject", "itemsNull", "itemsNotList", "itemWithoutName"}

ShapeErrorIsFatal ==
    turbo.kind \in UnusableShapes =>
        /\ changesetFiles = {}
        /\ cpc = "done" => changesetExit = <<1>>

\* ------------------------------------------------------------------------
\* C16: a filesystem failure while writing the record is fatal and is not
\* retried: the write is attempted exactly once, the run ends with a
\* non-zero status and reports no record as written.
WriteFailureIsFatalAndNotRetried ==
    (cpc = "done" /\ changesetContent # <<>> /\ ~changesetWritable) =>
        /\ writeAttempts = 1
        /\ changesetExit # <<>>
        /\ changesetExit # <<0>>
        /\ changesetFiles = {}
        /\ ~ReportsRecordWritten

\* the record of @repo/ui was built, the write failed, the run ended with 1
WriteFailureReached ==
    /\ ~changesetWritable
    /\ includedPackages = << << [name |-> "@repo/ui"] >> >>
    /\ writeAttempts = 1
    /\ changesetExit = <<1>>

\* ------------------------------------------------------------------------
\* C17: no record with an empty mapping is ever written: a record file is
\* written only if the filtered package list is non-empty, and a run writes
\* at most one record file.
RecordOnlyForNonEmptyMapping ==
    /\ Cardinality(changesetFiles) <= 1
    /\ writeAttempts <= 1
    /\ writeAttempts > 0 => (includedPackages # <<>> /\ Len(includedPackages[1]) > 0)
    /\ changesetFiles # {} => writeAttempts = 1
    /\ \A f \in changesetFiles : ~StartsWith(f.content, "---\n\n---")

\* one record was written, for a filtered list shorter than the affected list
OneRecordWrittenReached ==
    /\ Cardinality(changesetFiles) = 1
    /\ Len(includedPackages[1]) = 1
    /\ Len(affectedPackages[1]) = 2
    /\ changesetExit = <<0>>

\* ------------------------------------------------------------------------
\* Reading a record back
\* ------------------------------------------------------------------------
RecordLines(content) == Split(content, "\n")

\* the index of the line that closes the frontmatter opened by line 1
FrontmatterEnd(lines) ==
    CHOOSE k \in 2..Len(lines) :
        /\ lines[k] = "---"
        /\ \A j \in 2..(k - 1) : lines[j] # "---"

\* the entries of the frontmatter mapping, one per line
FrontmatterEntries(content) ==
    LET lines == RecordLines(content)
    IN  SubSeq(lines, 2, FrontmatterEnd(lines) - 1)

\* the lines after the frontmatter
BodyLines(content) ==
    LET lines == RecordLines(content)
    IN  SubSeq(lines, FrontmatterEnd(lines) + 1, Len(lines))

\* the mapping entry of a package name
EntryOf(name) == "\"" \o name \o "\": minor"

\* ------------------------------------------------------------------------
\* C18: in every record written, each package name appears in the
\* frontmatter mapping exactly once, whatever list of affected packages the
\* detector returns, a list naming a package more than once included.
EachNameMappedExactlyOnce ==
    \A f \in changesetFiles :
        LET entries == FrontmatterEntries(f.content)
        IN  /\ \A k \in DOMAIN includedPackages[1] :
                   Occurrences(entries, EntryOf(includedPackages[1][k].name)) = 1
            /\ \A i, j \in DOMAIN entries : i # j => entries[i] # entries[j]

\* ------------------------------------------------------------------------
\* C19: the frontmatter mapping has one entry "<name>": <severity> per
\* filtered package, in the filtered order, and every entry carries the one
\* configured severity, minor.
FrontmatterListsFilteredPackagesAsMinor ==
    \A f \in changesetFiles :
        LET entries == FrontmatterEntries(f.content)
            inc     == includedPackages[1]
        IN  /\ Len(entries) = Len(inc)
            /\ \A k \in DOMAIN inc : entries[k] = EntryOf(inc[k].name)

\* the example of the specification, followed by an application package:
\* @repo/eslint-config is filtered out, @repo/ui and web are mapped in order
FrontmatterExampleReached ==
    /\ turbo = [kind |-> "ok",
                items |-> << [name |-> "@repo/ui"], [name |-> "@repo/eslint-config"],
                             [name |-> "web"] >>]
    /\ \E f \in changesetFiles :
           FrontmatterEntries(f.content) = << "\"@repo/ui\": minor", "\"web\": minor" >>

\* ------------------------------------------------------------------------
\* C20: the reference line of a record is a markdown link to the
\* repository's /pull/<number> when a reference number and a repository are
\* both present, the bare #<number> when there is a number and no
\* repository, and the empty string when there is no number, whether or not
\* a repository is present.
ExpectedReferenceLine ==
    IF PR_NUMBER = "" THEN ""
    ELSE IF CHANGESET_REPOSITORY = "" THEN "#" \o PR_NUMBER
    ELSE "[#" \o PR_NUMBER \o "](https://github.com/" \o CHANGESET_REPOSITORY
             \o "/pull/" \o PR_NUMBER \o ")"

ReferenceLineFollowsNumberAndRepository ==
    changesetContent # <<>> =>
        BodyLines(changesetContent[1]) =
            <<"">> \o (IF ExpectedReferenceLine = "" THEN <<>>
                       ELSE <<ExpectedReferenceLine, "">>)
                   \o <<config[1].prTitle, "">>

\* a record without reference line was written although the repository is known
NoNumberWithRepositoryReached ==
    /\ PR_NUMBER = ""
    /\ CHANGESET_REPOSITORY = "org/repo"
    /\ \E f \in changesetFiles :
           BodyLines(f.content) = <<"", "Add new feature", "">>

\* ------------------------------------------------------------------------
\* C21: the content of a record is, in this order, a '---' line, the mapping
\* lines, a '---' line, a blank line, the reference if any (its line, ended
\* by a blank line), the description and a trailing newline; without
\* reference the description directly follows the blank line after the
\* frontmatter.
RecordLayoutIsFixed ==
    changesetContent # <<>> =>
        LET inc == includedPackages[1]
        IN  changesetContent[1] =
                Join(<<"---">>
                     \o [k \in DOMAIN inc |-> EntryOf(inc[k].name)]
                     \o <<"---", "">>
                     \o (IF ExpectedReferenceLine = "" THEN <<>>
                         ELSE <<ExpectedReferenceLine, "">>)
                     \o <<config[1].prTitle>>,
                     "\n") \o "\n"

\* a record with two mapping lines, a reference line and the default description
FullRecordLayoutReached ==
    \E f \in changesetFiles :
        f.content = "---\n\"@repo/ui\": minor\n\"web\": minor\n---\n\n"
                        \o "[#42](https://github.com/org/repo/pull/42)\n\n"
                        \o "Update affected packages\n"

\* ------------------------------------------------------------------------
\* Properties of two runs of generate-auto-changeset.mjs
\* ------------------------------------------------------------------------
\* the environment of the first run, as a record
MainEnv ==
    [turbo |-> turbo, argvTitle |-> argvTitle, PR_NUMBER |-> PR_NUMBER,
     CHANGESET_REPOSITORY |-> CHANGESET_REPOSITORY]

\* the first run has written its record
MainWrote == writeAttempts = 1 /\ changesetExit = <<0>>

EachRunWritesItsOwnFile ==
    (MainWrote /\ peerFile # <<>>) =>
        /\ Cardinality(changesetFiles) = 2
        /\ \E f \in changesetFiles : f.content = changesetContent[1]
        /\ \E f \in changesetFiles : f.content = peerContent[1] /\ f.name = peerFile[1]

\* ------------------------------------------------------------------------
\* Properties of repeated runs of create-releases.js
\* ------------------------------------------------------------------------
\* the eligible tags at HEAD, in the order git lists them
RECURSIVE EligibleTagsOf(_)
EligibleTagsOf(ts) ==
    IF Len(ts) = 0 THEN <<>>
    ELSE IF IsEligibleTag(Head(ts)) THEN <<Head(ts)>> \o EligibleTagsOf(Tail(ts))
    ELSE EligibleTagsOf(Tail(ts))

IsPrefixOf(s, t) == Len(s) <= Len(t) /\ SubSeq(t, 1, Len(s)) = s

NoTagHasTwoReleases ==
    \A i, j \in DOMAIN releases : i # j => releases[i] # releases[j]

SecondRunEnded == run = 2 /\ pc = "done"

\* ------------------------------------------------------------------------
\* C24, as stated: running the script again on the same HEAD, against a
\* platform that rejects a release for a tag that already has one, leaves
\* the set of published releases equal to the set after the first run, and
\* no tag ever has two releases.
RerunLeavesReleasesUnchanged ==
    /\ NoTagHasTwoReleases
    /\ SecondRunEnded => releases = firstRun[1].releases

\* C24, amended: a second run never removes a release and never gives a tag
\* a second one; it adds releases only for eligible tags at HEAD for which
\* the first run created none, and it leaves the set of published releases
\* equal to the set after the first run whenever the first run created a
\* release for every eligible tag.
RerunOnlyAddsMissingReleases ==
    /\ NoTagHasTwoReleases
    /\ \A k \in DOMAIN releases : IsEligibleTag(releases[k]) /\ Occurs(headTags, releases[k])
    /\ run = 2 =>
           /\ IsPrefixOf(firstRun[1].releases, releases)
           /\ Len(firstRun[1].releases) = Len(EligibleTagsOf(headTags)) =>
                  releases = firstRun[1].releases

\* the first run created both releases, the second one has ended and changed nothing
RerunAfterFullRunReached ==
    /\ SecondRunEnded
    /\ headTags = <<"docs@1.0.1", "@repo/ui@0.3.0", "web@0.1.3">>
    /\ firstRun[1].releases = <<"docs@1.0.1", "web@0.1.3">>
    /\ releases = <<"docs@1.0.1", "web@0.1.3">>
    /\ Len(commands) = 2

EndedAtReportLine == pc = "done" /\ attempt # <<>>

StatisticsHeading == "### :bar_chart: Statistics"

\* ------------------------------------------------------------------------
\* C27: a failure to append a tag's report line to the summary file is not
\* captured per tag: the run stops at that tag, no release-creation command
\* is invoked for a later tag, no statistics block is written, the process
\* exits 1, and the release created for that tag, if any, remains.
AppendFailureAtTagEndsRun ==
    /\ [][ (pc = "log" /\ GITHUB_STEP_SUMMARY # "" /\ summary' = summary) =>
               /\ pc' = "done"
               /\ exitCode' = <<1>>
               /\ commands' = commands
               /\ releases' = releases
               /\ results' = results
               /\ statistics' = <<>> ]_vars
    /\ [](EndedAtReportLine =>
               /\ exitCode = <<1>>
               /\ statistics = <<>>
               /\ ~Occurs(summary, StatisticsHeading)
               /\ [k \in DOMAIN commands |-> commands[k].tag]
                      = EligibleTagsOf(SubSeq(tags, 1, idx))
               /\ attempt[1].success => Occurs(releases, tags[idx]))

\* the report line of docs@1.0.1 could not be appended after its release was
\* created; web@0.1.3 is eligible and was never tried
AppendFailureAfterCreationReached ==
    /\ EndedAtReportLine
    /\ tags = <<"docs@1.0.1", "web@0.1.3">>
    /\ idx = 1
    /\ releases = <<"docs@1.0.1">>
    /\ Len(commands) = 1
    /\ exitCode = <<1>>

\* ------------------------------------------------------------------------
\* C25: no rollback: within a run of create-releases.js the set of created
\* releases only grows (a release created for an earlier tag still exists
\* after a later tag of the batch has failed and the run has exited 1), and
\* generate-auto-changeset.mjs never deletes a record file it has written.
NoRollback ==
    /\ [][ /\ IsPrefixOf(releases, releases')
           /\ \A f \in changesetFiles : \E g \in changesetFiles' : g.name = f.name ]_vars
    /\ [](/\ \A k \in DOMAIN results.created : Occurs(releases, results.created[k])
          /\ ReportsRecordWritten => changesetFiles # {})

\* the release of docs@1.0.1 is there after web@0.1.3 failed and the run
\* exited 1; the record written by the other script is there as well
ReleaseKeptAfterLaterFailureReached ==
    /\ results.created = <<"docs@1.0.1">>
    /\ results.failed = <<"web@0.1.3">>
    /\ exitCode = <<1>>
    /\ releases = <<"docs@1.0.1">>
    /\ changesetExit = <<0>>
    /\ Cardinality(changesetFiles) = 1

\* the level-2 headings among the lines of a step summary
ReportHeaders(file) ==
    SelectSeq(file, LAMBDA line : Len(line) >= 3 /\ SubSeq(line, 1, 3) = "## ")

DetectionSucceeded == gitAvailable /\ pc \notin {"start", "detect"}

\* ------------------------------------------------------------------------
\* C29: in every run of create-releases.js with the step summary configured,
\* exactly one report header (a level-2 heading) is appended to the summary,
\* in the run with zero tags as well as in the runs with tags, and it is
\* appended only once the tag detection has succeeded.
ExactlyOneReportHeaderAfterDetection ==
    GITHUB_STEP_SUMMARY # "" =>
        /\ ~DetectionSucceeded => Len(ReportHeaders(summary)) = 0
        /\ DetectionSucceeded /\ pc = "done" => Len(ReportHeaders(summary)) = 1

\* the release commands of this run ended as those of the first run did,
\* position by position
SameCommandOutcomes ==
    \A k \in DOMAIN commands \cap DOMAIN firstRun[1].commands :
        commands[k].result = firstRun[1].commands[k].result

SameCommandOutcomesBefore(k) ==
    \A j \in 1..(k - 1) :
        /\ j \in DOMAIN firstRun[1].commands
        /\ commands[j].result = firstRun[1].commands[j].result

\* ------------------------------------------------------------------------
\* C28: the summary setting does not influence release behaviour: for the
\* same tags at HEAD and the same outcomes of the external commands, the run
\* with GITHUB_STEP_SUMMARY unset and the run with it set start the same
\* release commands in the same order, fill the same created, skipped and
\* failed buckets and exit with the same code; with the path unset nothing
\* is appended at all.
SummarySettingDoesNotInfluenceReleases ==
    /\ GITHUB_STEP_SUMMARY = "" => summary = <<>>
    /\ run = 2 =>
        /\ GITHUB_STEP_SUMMARY # firstRun[1].summaryPath
        /\ \A k \in DOMAIN commands :
              SameCommandOutcomesBefore(k) =>
                  /\ k \in DOMAIN firstRun[1].commands
                  /\ commands[k].tag = firstRun[1].commands[k].tag
        /\ (pc = "done" /\ SameCommandOutcomes) =>
              /\ commands = firstRun[1].commands
              /\ results = firstRun[1].results
              /\ exitCode = firstRun[1].exitCode

\* the run without a summary path has ended as the run with one did: one
\* release created, one command failed, one tag skipped, exit 1
BothSettingsRunReached ==
    /\ SecondRunEnded
    /\ GITHUB_STEP_SUMMARY = ""
    /\ firstRun[1].summaryPath # ""
    /\ SameCommandOutcomes
    /\ headTags = <<"docs@1.0.1", "web@0.1.3", "@repo/ui@0.3.0">>
    /\ results.created = <<"docs@1.0.1">>
    /\ results.failed = <<"web@0.1.3">>
    /\ results.skipped = <<"@repo/ui@0.3.0">>
    /\ exitCode = <<1>>

BothScriptsEnded == pc = "done" /\ inlinePc = "done"

\* the release commands of the inline script ended as those of the
\* structured one did, position by position
SameOutcomesInBothScripts ==
    \A k \in DOMAIN commands \cap DOMAIN inlineCommands :
        inlineCommands[k].result = commands[k].result

SameOutcomesInBothScriptsBefore(k) ==
    \A j \in 1..(k - 1) : inlineCommands[j].result = commands[j].result

\* the count lines of the statistics block of a step summary
StatisticsCounts(file) ==
    SelectSeq(file, LAMBDA line : /\ StartsWith(line, "- **")
                                  /\ ~StartsWith(line, "- **Duration**"))

====
